---- MODULE Spec2Model ----
(***************************************************************************)
(* Model of Source/UpDrive/bsp_systimer.c: the SysTick interrupt handler,  *)
(* the software timer bank, the run-time clock, bsp_DelayMS and            *)
(* bsp_DelayUS.  The foreground is one thread of control whose position is *)
(* pc: 0 between calls, otherwise the source line of the statement it is   *)
(* about to execute.  The tick interrupt preempts the foreground between   *)
(* any two foreground steps while PRIMASK is clear; the handler itself     *)
(* runs to completion (tick interrupts do not nest).                       *)
(***************************************************************************)
EXTENDS Integers, Sequences, FiniteSets, TLC

(* ------------------------------ bounds -------------------------------- *)
\* largest _period passed to bsp_StartTimer / bsp_StartAutoTimer
MaxPeriod == 2
\* wrap sentinel of g_iRunTime (0x7FFFFFFF in the code, scaled down)
RUNTIME_MAX == 4
\* expiry events the counting observer follows after a slot is armed
MaxExp == 2
\* largest n passed to bsp_DelayMS
MaxDelay == 3
\* largest n passed to bsp_DelayUS
MaxUs == 4
\* modulus of uint32_t arithmetic (2^32 in the code, scaled down)
UintMod == 8
\* SysTick->LOAD: the down-counter runs LOAD, LOAD-1, ..., 1, 0, LOAD, ...
HwReload == 3
\* SystemCoreClock / 1000000, hardware-counter ticks per microsecond
TicksPerUs == 2

(* -------------------------- program constants ------------------------- *)
\* static SOFT_TMR s_tTmr[TMR_COUNT]: the bank of bsp.h, scaled down to two slots
TMR_COUNT == 2
\* if (++s_count >= 10)
DecaTicks == 10
TMR_ONCE_MODE == "TMR_ONCE_MODE"
TMR_AUTO_MODE == "TMR_AUTO_MODE"

Slots == 0 .. (TMR_COUNT - 1)
Min(a, b) == IF a < b THEN a ELSE b
\* how far the observer counts ticks after a slot is armed
MaxObs == 2 * MaxPeriod + 1
\* the observer's "not counting"
Off == 0 - 1
\* how far the observer counts the handler's runs since boot
MaxTicks == 2 * DecaTicks + 1

VARIABLES
    (* program state *)
    s_tTmr,           \* [Slots -> [Count, PreLoad, Flag, Mode]]
    s_uiDelayCount,   \* countdown of bsp_DelayMS
    s_ucTimeOutFlag,  \* expired flag of bsp_DelayMS
    g_iRunTime,       \* run-time clock
    s_count,          \* static sub-counter of SysTick_ISR
    primask,          \* 1: tick interrupt masked
    savedMask,        \* mask state saved by DISABLE_INT for ENABLE_INT
    hwVal,            \* SysTick->VAL, the hardware down-counter
    hooks,            \* the calls of external hooks by the last handler run, in order
    (* foreground: position, arguments and locals of the running call *)
    pc, id, n, now_time, LastTime, ticks, told, tcnt,
    maxId,            \* the largest _id the foreground passes to the bank
    isr,              \* the handler inside the bsp_DelayMS a hook of its called:
                      \* [pc, n], pc = 0 when no handler is running
    (* the last step of the system, when it was the return of an observed call:
       bsp_CheckTimer on the observed slot, the clock's functions, the delays *)
    done,             \* the function that returned ("none" otherwise)
    ret,              \* the value it returned
    prevRet,          \* bsp_CheckTimer: chkRet before this return
    (* observer of one slot of the bank *)
    obsMode,          \* what it follows: "schedule", "count", "hooks", "off" (no
                      \* slot) or "frame" (no slot and no delay)
    watched,          \* the observed slot
    obsArm,           \* last start/stop completed on it: none, once, auto, stop
    obsP,             \* the period it was armed with
    (* "schedule": the calls of bsp_CheckTimer against the ticks *)
    sync,             \* "fresh": bsp_CheckTimer was called once after each tick
                      \* since the slot was armed; "due": and one tick has had
                      \* no call yet; "lost": the schedule was not kept
    obsTicks,         \* handler runs since the slot was armed (MaxObs when lost)
    chkRet,           \* what bsp_CheckTimer last returned for it, no tick since
    stopFlag,         \* Flag of the slot when the last bsp_StopTimer began
    (* "count": expiries against reports (Off once MaxExp is passed) *)
    nExp,             \* handler runs that took Count to 0 since the slot was armed
    nRep,             \* bsp_CheckTimer calls that returned 1 since it was armed
    (* observer of the clock *)
    nTicks,           \* handler runs since boot (Off: not counting)
    sampleTicks,      \* handler runs since bsp_GetRunTime read the clock
    kRead,            \* sampleTicks when bsp_CheckRunTime read the clock
    (* observer of the delays *)
    origN,            \* n as passed to bsp_DelayMS
    dArmed,           \* the call wrote the delay state
    dPolled,          \* the call polled the expired flag
    dTicks,           \* handler runs since the call armed the delay state
    relTick,          \* dTicks in the handler run that set the expired flag
    elapsed,          \* hardware-counter ticks since bsp_DelayUS's first sample
    sinceSample       \* hardware-counter ticks since its last sample

progVars == <<s_tTmr, s_uiDelayCount, s_ucTimeOutFlag, g_iRunTime, s_count,
              primask, savedMask, hwVal, hooks>>
fgVars == <<pc, id, n, now_time, LastTime, ticks, told, tcnt, maxId, isr>>
retObs == <<done, ret, prevRet>>
tmrObs == <<obsMode, watched, obsArm, obsP, sync, obsTicks, chkRet, stopFlag, nExp, nRep>>
clkObs == <<nTicks, sampleTicks, kRead>>
dlyObs == <<origN, dArmed, dPolled, dTicks, relTick>>
usObs == <<elapsed, sinceSample>>
vars == <<progVars, fgVars, retObs, tmrObs, clkObs, dlyObs, usObs>>

(* ------------------------ critical sections --------------------------- *)
\* what a critical section of the bank reads and writes
Cpu == [tmr |-> s_tTmr, mask |-> primask, saved |-> savedMask]

\* DISABLE_INT(): mask the tick interrupt, remembering the prior state
DISABLE_INT(c) == [c EXCEPT !.saved = c.mask, !.mask = 1]

\* ENABLE_INT() unmasking whatever DISABLE_INT found
ENABLE_INT_Unmasks(c) == [c EXCEPT !.mask = 0]

\* ENABLE_INT(): restore the state DISABLE_INT found
ENABLE_INT(c) == [c EXCEPT !.mask = c.saved]

\* the write landing in every slot, the index ignored
SetFieldEverySlot(c, i, f, v) ==
    [c EXCEPT !.tmr = [j \in Slots |-> [c.tmr[j] EXCEPT ![f] = v]]]

\* s_tTmr[_id].f = v;
SetField(c, i, f, v) == [c EXCEPT !.tmr[i][f] = v]

\* the critical section has run: no tick can be taken inside it
Commit(c) ==
    /\ s_tTmr' = c.tmr
    /\ primask' = c.mask
    /\ savedMask' = c.saved

(* --------------------------- SysTick_ISR ------------------------------ *)
\* bsp_SoftTimerDec with the flag never set
SoftTimerDecNoFlag(tmr) ==
    IF tmr.Count > 0
    THEN IF tmr.Count - 1 = 0
         THEN IF tmr.Mode = TMR_AUTO_MODE
              THEN [tmr EXCEPT !.Count = tmr.PreLoad]
              ELSE [tmr EXCEPT !.Count = 0]
         ELSE [tmr EXCEPT !.Count = tmr.Count - 1]
    ELSE tmr

\* bsp_SoftTimerDec reloading whatever the mode
SoftTimerDecAlwaysReload(tmr) ==
    IF tmr.Count > 0
    THEN IF tmr.Count - 1 = 0
         THEN [tmr EXCEPT !.Count = tmr.PreLoad, !.Flag = 1]
         ELSE [tmr EXCEPT !.Count = tmr.Count - 1]
    ELSE tmr

\* bsp_SoftTimerDec never reloading
SoftTimerDecNoReload(tmr) ==
    IF tmr.Count > 0
    THEN IF tmr.Count - 1 = 0
         THEN [tmr EXCEPT !.Count = 0, !.Flag = 1]
         ELSE [tmr EXCEPT !.Count = tmr.Count - 1]
    ELSE tmr

\* bsp_SoftTimerDec writing the flag as a level: set at expiry, else cleared
SoftTimerDecLevelFlag(tmr) ==
    IF tmr.Count > 0
    THEN IF tmr.Count - 1 = 0
         THEN IF tmr.Mode = TMR_AUTO_MODE
              THEN [tmr EXCEPT !.Count = tmr.PreLoad, !.Flag = 1]
              ELSE [tmr EXCEPT !.Count = 0, !.Flag = 1]
         ELSE [tmr EXCEPT !.Count = tmr.Count - 1, !.Flag = 0]
    ELSE tmr

\* bsp_SoftTimerDec taking a count of 0 in auto mode for an expiry
SoftTimerDecZeroFires(tmr) ==
    IF tmr.Count > 0
    THEN IF tmr.Count - 1 = 0
         THEN IF tmr.Mode = TMR_AUTO_MODE
              THEN [tmr EXCEPT !.Count = tmr.PreLoad, !.Flag = 1]
              ELSE [tmr EXCEPT !.Count = 0, !.Flag = 1]
         ELSE [tmr EXCEPT !.Count = tmr.Count - 1]
    ELSE IF tmr.Mode = TMR_AUTO_MODE
         THEN [tmr EXCEPT !.Count = tmr.PreLoad, !.Flag = 1]
         ELSE tmr

\* bsp_SoftTimerDec(_tmr): one slot's step of the handler
bsp_SoftTimerDec(tmr) ==
    IF tmr.Count > 0
    THEN IF tmr.Count - 1 = 0
         THEN IF tmr.Mode = TMR_AUTO_MODE
              THEN [tmr EXCEPT !.Count = tmr.PreLoad, !.Flag = 1]
              ELSE [tmr EXCEPT !.Count = 0, !.Flag = 1]
         ELSE [tmr EXCEPT !.Count = tmr.Count - 1]
    ELSE tmr

\* the clock wrapping one tick late
RunTimeAdvanceLate(t) == IF t = RUNTIME_MAX THEN 0 ELSE t + 1

\* g_iRunTime++; if (g_iRunTime == 0x7FFFFFFF) g_iRunTime = 0;
RunTimeAdvance(t) == IF t + 1 = RUNTIME_MAX THEN 0 ELSE t + 1

\* the delay countdown releasing one tick early
DelayDecEarly(c, f) ==
    IF c > 0 THEN <<c - 1, IF c - 1 <= 1 THEN 1 ELSE f>> ELSE <<c, f>>

\* if (s_uiDelayCount > 0) if (--s_uiDelayCount == 0) s_ucTimeOutFlag = 1;
DelayDec(c, f) ==
    IF c > 0 THEN <<c - 1, IF c - 1 = 0 THEN 1 ELSE f>> ELSE <<c, f>>

\* the step is not a return
NoReturn == done' = "none" /\ ret' = 0 /\ prevRet' = Off

\* what a handler run adds to the observers
TickObserved ==
    /\ NoReturn
    /\ UNCHANGED <<obsMode, watched, obsArm, obsP, stopFlag>>
    /\ chkRet' = Off
    /\ LET s == IF sync = "fresh" /\ obsTicks + 1 < MaxObs THEN "due" ELSE "lost"
       IN /\ sync' = s
          /\ obsTicks' = IF s = "lost" THEN MaxObs ELSE obsTicks + 1
    /\ LET expiry == s_tTmr[watched].Count = 1
           over == nExp = Off \/ (expiry /\ nExp = MaxExp)
       IN /\ nExp' = IF over THEN Off ELSE IF expiry THEN nExp + 1 ELSE nExp
          /\ nRep' = IF over THEN Off ELSE nRep
    /\ nTicks' = IF nTicks = Off THEN Off ELSE Min(nTicks + 1, MaxTicks)
    /\ sampleTicks' = IF sampleTicks = Off THEN Off
                      ELSE Min(sampleTicks + 1, RUNTIME_MAX)
    /\ kRead' = kRead
    /\ LET d == IF dArmed /\ pc # 0 THEN Min(dTicks + 1, MaxDelay + 2) ELSE dTicks
       IN /\ dTicks' = d
          /\ relTick' = IF dArmed /\ pc # 0 /\ s_ucTimeOutFlag = 0
                           /\ s_ucTimeOutFlag' = 1
                        THEN d ELSE relTick
    /\ UNCHANGED <<origN, dArmed, dPolled>>

\* what the handler works on, and the calls of the external hooks so far
Isr == [delay |-> s_uiDelayCount, flag |-> s_ucTimeOutFlag, tmr |-> s_tTmr,
        clock |-> g_iRunTime, count |-> s_count, hooks |-> << >>]

\* lines 84-90: the countdown of bsp_DelayMS
IsrDelay(r) ==
    LET dl == DelayDec(r.delay, r.flag)
    IN [r EXCEPT !.delay = dl[1], !.flag = dl[2]]

\* lines 93-96: for (i = 0; i < TMR_COUNT; i++) bsp_SoftTimerDec(&s_tTmr[i]);
IsrSlots(r) == [r EXCEPT !.tmr = [i \in Slots |-> bsp_SoftTimerDec(r.tmr[i])]]

\* lines 99-103: the run-time clock
IsrClock(r) == [r EXCEPT !.clock = RunTimeAdvance(r.clock)]

\* a call of an external hook: it can read the clock, and (recorded when the
\* observer follows the hooks) the slots' flags and the delay flag
CallHook(r, name) ==
    [r EXCEPT !.hooks = Append(@,
        [name |-> name, clock |-> r.clock,
         flags |-> IF obsMode = "hooks"
                   THEN <<[i \in Slots |-> r.tmr[i].Flag], r.flag>>
                   ELSE << >>])]

\* line 105: bsp_RunPer1ms();
IsrPer1ms(r) == CallHook(r, "bsp_RunPer1ms")

\* lines 107-111: if (++s_count >= 10) { s_count = 0; bsp_RunPer10ms(); }
IsrPer10ms(r) ==
    IF r.count + 1 >= DecaTicks
    THEN CallHook([r EXCEPT !.count = 0], "bsp_RunPer10ms")
    ELSE [r EXCEPT !.count = r.count + 1]

\* line 112: TPCRemarks(TaskComps);
IsrRemarks(r) == CallHook(r, "TPCRemarks")

\* the handler calling its per-tick hook before it advances the clock
IsrRunHookBeforeClock(r) ==
    IsrRemarks(IsrPer10ms(IsrClock(IsrPer1ms(IsrSlots(IsrDelay(r))))))

\* lines 84-112, in the order of the statements
IsrRun(r) ==
    IsrRemarks(IsrPer10ms(IsrPer1ms(IsrClock(IsrSlots(IsrDelay(r))))))

\* SysTick_ISR(): the whole handler
SysTick_ISR ==
    /\ LET r == IsrRun(Isr)
       IN /\ s_uiDelayCount' = r.delay
          /\ s_ucTimeOutFlag' = r.flag
          /\ s_tTmr' = r.tmr
          /\ g_iRunTime' = r.clock
          /\ s_count' = r.count
          /\ hooks' = r.hooks
    /\ UNCHANGED <<primask, savedMask>>
    /\ TickObserved

\* the tick interrupt, taken between two foreground steps; tick interrupts
\* do not nest
Tick ==
    /\ primask = 0
    /\ isr.pc = 0
    /\ SysTick_ISR
    /\ UNCHANGED <<hwVal, elapsed, sinceSample>>
    /\ UNCHANGED fgVars

(* ------------------------------ start --------------------------------- *)
\* no handler is running
IsrIdle == [pc |-> 0, n |-> 0]

ZeroTmr == [Count |-> 0, PreLoad |-> 0, Flag |-> 0, Mode |-> TMR_ONCE_MODE]

\* the state SysTickTimer_Init leaves, with the tick interrupt running
InitProg ==
    /\ s_tTmr = [i \in Slots |-> ZeroTmr]
    /\ s_uiDelayCount = 0
    /\ s_ucTimeOutFlag = 0
    /\ g_iRunTime = 0
    /\ s_count = 0
    /\ primask = 0
    /\ savedMask = 0
    /\ hwVal = HwReload
    /\ hooks = << >>
    /\ pc = 0 /\ id = 0 /\ n = 0
    /\ now_time = 0 /\ LastTime = 0
    /\ ticks = 0 /\ told = 0 /\ tcnt = 0
    /\ isr = IsrIdle

InitObs ==
    /\ done = "none" /\ ret = 0 /\ prevRet = Off
    /\ obsArm = "none" /\ obsP = 0 /\ obsTicks = MaxObs /\ sync = "lost"
    /\ chkRet = Off /\ nExp = Off /\ nRep = Off /\ stopFlag = 0
    /\ sampleTicks = Off /\ kRead = Off
    /\ origN = 0 /\ dArmed = FALSE /\ dPolled = FALSE /\ dTicks = 0 /\ relTick = 0
    /\ elapsed = 0 /\ sinceSample = 0

(* ------------------------- foreground frames -------------------------- *)
KeepLocals == UNCHANGED <<n, now_time, LastTime, ticks, told, tcnt, maxId, isr>>
KeepIsrState == UNCHANGED <<s_uiDelayCount, s_ucTimeOutFlag, g_iRunTime, s_count,
                            hwVal, hooks>>
KeepOtherObs == UNCHANGED <<clkObs, dlyObs, usObs>>

\* a call of a void bank function that runs to its return in one step
Returns ==
    /\ pc = 0 /\ pc' = 0 /\ id' = id
    /\ NoReturn
    /\ KeepLocals /\ KeepIsrState /\ KeepOtherObs

\* the halt reached with the tick interrupt already masked
HaltsMasked(l) ==
    /\ pc = 0 /\ pc' = l /\ id' = id
    /\ NoReturn
    /\ primask' = 1
    /\ UNCHANGED <<s_tTmr, savedMask, tmrObs>>
    /\ KeepLocals /\ KeepIsrState /\ KeepOtherObs

\* a call of a bank function that never returns: while(1) at source line l
Halts(l) ==
    /\ pc = 0 /\ pc' = l /\ id' = id
    /\ NoReturn
    /\ UNCHANGED <<s_tTmr, primask, savedMask, tmrObs>>
    /\ KeepLocals /\ KeepIsrState /\ KeepOtherObs

\* a start or stop of slot i has returned: the observer restarts on its slot
Armed(i, kind, p, flagBefore) ==
    IF i = watched /\ obsMode \in {"schedule", "count"}
    THEN /\ obsArm' = kind /\ obsP' = p
         /\ IF obsMode = "schedule"
            THEN /\ sync' = "fresh" /\ obsTicks' = 0
                 /\ stopFlag' = flagBefore
            ELSE UNCHANGED <<sync, obsTicks, stopFlag>>
         /\ chkRet' = Off
         /\ LET c == IF obsMode = "count" /\ kind # "stop" THEN 0 ELSE Off
            IN nExp' = c /\ nRep' = c
         /\ UNCHANGED <<obsMode, watched>>
    ELSE UNCHANGED tmrObs

(* -------------------------- bsp_StartTimer ---------------------------- *)
\* lines 249-256: the critical section of bsp_StartTimer
StartTimerBody(c, i, p) ==
    LET c1 == DISABLE_INT(c)
        c2 == SetField(c1, i, "Count", p)
        c3 == SetField(c2, i, "PreLoad", p)
        c4 == SetField(c3, i, "Flag", 0)
        c5 == SetField(c4, i, "Mode", TMR_ONCE_MODE)
    IN ENABLE_INT(c5)

\* void bsp_StartTimer(uint8_t _id, uint32_t _period)
bsp_StartTimer ==
    \E i \in 0 .. maxId, p \in 0 .. MaxPeriod :
       IF i >= TMR_COUNT
       THEN Halts(246)
       ELSE /\ Commit(StartTimerBody(Cpu, i, p))
            /\ Returns
            /\ Armed(i, "once", p, 0)

(* ------------------------ bsp_StartAutoTimer -------------------------- *)
\* lines 277-284: the critical section of bsp_StartAutoTimer
StartAutoTimerBody(c, i, p) ==
    LET c1 == DISABLE_INT(c)
        c2 == SetField(c1, i, "Count", p)
        c3 == SetField(c2, i, "PreLoad", p)
        c4 == SetField(c3, i, "Flag", 0)
        c5 == SetField(c4, i, "Mode", TMR_AUTO_MODE)
    IN ENABLE_INT(c5)

\* void bsp_StartAutoTimer(uint8_t _id, uint32_t _period)
bsp_StartAutoTimer ==
    \E i \in 0 .. maxId, p \in 0 .. MaxPeriod :
       IF i >= TMR_COUNT
       THEN Halts(274)
       ELSE /\ Commit(StartAutoTimerBody(Cpu, i, p))
            /\ Returns
            /\ Armed(i, "auto", p, 0)

(* --------------------------- bsp_StopTimer ---------------------------- *)
\* bsp_StopTimer without its write of Flag
StopTimerBodyKeepsFlag(c, i) ==
    LET c1 == DISABLE_INT(c)
        c2 == SetField(c1, i, "Count", 0)
        c4 == SetField(c2, i, "Mode", TMR_ONCE_MODE)
    IN ENABLE_INT(c4)

\* lines 304-310: the critical section of bsp_StopTimer
StopTimerBody(c, i) ==
    LET c1 == DISABLE_INT(c)
        c2 == SetField(c1, i, "Count", 0)
        c3 == SetField(c2, i, "Flag", 0)
        c4 == SetField(c3, i, "Mode", TMR_ONCE_MODE)
    IN ENABLE_INT(c4)

\* void bsp_StopTimer(uint8_t _id)
bsp_StopTimer ==
    \E i \in 0 .. maxId :
       IF i >= TMR_COUNT
       THEN Halts(301)
       ELSE /\ Commit(StopTimerBody(Cpu, i))
            /\ Returns
            /\ Armed(i, "stop", 0, s_tTmr[i].Flag)

(* --------------------------- bsp_CheckTimer --------------------------- *)
\* bsp_CheckTimer(watched) is entered
CheckEntered(i) ==
    /\ sync' = IF i = watched /\ sync = "fresh" THEN "lost" ELSE sync
    /\ obsTicks' = IF i = watched /\ sync = "fresh" THEN MaxObs ELSE obsTicks
    /\ UNCHANGED <<obsMode, watched, obsArm, obsP, chkRet, nExp, nRep, stopFlag>>

\* bsp_CheckTimer(i) returns r
CheckReturn(i, r) ==
    /\ pc' = 0 /\ id' = 0
    /\ UNCHANGED <<primask, savedMask>>
    /\ KeepLocals /\ KeepIsrState /\ KeepOtherObs
    /\ IF i = watched /\ obsMode = "schedule"
       THEN /\ done' = "bsp_CheckTimer" /\ ret' = r
            /\ prevRet' = chkRet
            /\ chkRet' = r
            /\ sync' = IF sync = "due" THEN "fresh" ELSE "lost"
            /\ UNCHANGED <<obsMode, watched, obsArm, obsP, obsTicks, stopFlag,
                           nExp, nRep>>
       ELSE /\ NoReturn
            /\ nRep' = IF i = watched /\ r = 1 /\ nRep # Off
                       THEN Min(nRep + 1, MaxExp + 1) ELSE nRep
            /\ UNCHANGED <<obsMode, watched, obsArm, obsP, sync, obsTicks, chkRet,
                           stopFlag, nExp>>

\* bsp_CheckTimer returning 1 without clearing the flag
CheckClearKeepsFlag(t) == t

\* s_tTmr[_id].Flag = 0;
CheckClear(t) == [t EXCEPT !.Flag = 0]

\* uint8_t bsp_CheckTimer(uint8_t _id)
bsp_CheckTimer ==
    \/ \E i \in 0 .. maxId :
          /\ pc = 0
          /\ IF i >= TMR_COUNT
             THEN /\ UNCHANGED s_tTmr
                  /\ CheckReturn(i, 0)
             ELSE /\ pc' = 329 /\ id' = i
                  /\ NoReturn
                  /\ CheckEntered(i)
                  /\ UNCHANGED progVars
                  /\ KeepLocals /\ KeepOtherObs
    \/ /\ pc = 329 /\ s_tTmr[id].Flag = 1
       /\ pc' = 331 /\ id' = id
       /\ NoReturn
       /\ UNCHANGED <<progVars, tmrObs>>
       /\ KeepLocals /\ KeepOtherObs
    \/ /\ pc = 329 /\ s_tTmr[id].Flag # 1
       /\ UNCHANGED s_tTmr
       /\ CheckReturn(id, 0)
    \/ /\ pc = 331
       /\ s_tTmr' = [s_tTmr EXCEPT ![id] = CheckClear(s_tTmr[id])]
       /\ CheckReturn(id, 1)

(* ---------------------- the timer bank under test --------------------- *)
InitTmr ==
    /\ InitProg /\ InitObs
    /\ maxId = TMR_COUNT - 1
    /\ obsMode = "schedule"
    /\ watched \in Slots
    /\ nTicks = Off

\* the same, with the observer counting expiries and reports
InitCnt ==
    /\ InitProg /\ InitObs
    /\ maxId = TMR_COUNT - 1
    /\ obsMode = "count"
    /\ watched \in Slots
    /\ nTicks = Off

NextTmr ==
    \/ Tick
    \/ bsp_StartTimer
    \/ bsp_StartAutoTimer
    \/ bsp_StopTimer
    \/ bsp_CheckTimer

SpecTmr == InitTmr /\ [][NextTmr]_vars

SpecCnt == InitCnt /\ [][NextTmr]_vars

(* ------------------- properties of the timer bank --------------------- *)
W == s_tTmr[watched]

\* C1: a slot armed by bsp_StartTimer(id, p), p > 0, and checked once after
\* each tick: bsp_CheckTimer returns 1 after tick p and 0 after every other
\* tick, before it and after it.
C1_OneShotFiresOnce ==
    (done = "bsp_CheckTimer" /\ obsArm = "once" /\ obsP > 0 /\ sync = "fresh")
        => (ret = 1 <=> obsTicks = obsP)

C1_Witness ==
    /\ done = "bsp_CheckTimer" /\ obsArm = "once" /\ sync = "fresh"
    /\ obsP = MaxPeriod /\ obsTicks = obsP /\ ret = 1

C3_StopSilences ==
    obsArm = "stop" =>
        /\ done = "bsp_CheckTimer" => ret = 0
        /\ W.Flag = 0 /\ W.Count = 0

C3_Witness ==
    /\ done = "bsp_CheckTimer" /\ obsArm = "stop" /\ stopFlag = 1
    /\ sync = "fresh" /\ obsTicks >= 2 /\ ret = 0

\* C4: a call of bsp_CheckTimer(id) that follows one that returned 1, with no
\* tick in between, returns 0.
C4_ConsumingRead ==
    (done = "bsp_CheckTimer" /\ prevRet = 1) => ret = 0

C4_Witness ==
    done = "bsp_CheckTimer" /\ prevRet = 1 /\ ret = 0

\* C5 as claimed: with no call in progress and no flag pending, the calls of
\* bsp_CheckTimer that returned 1 are as many as the expiry events.
C5_EachExpiryReportedOnce ==
    (nExp # Off /\ pc = 0 /\ W.Flag = 0) => nRep = nExp

\* C5 as amended: no expiry is reported twice (the calls that returned 1 never
\* outnumber the expiry events), and the expiry of a one-shot slot is reported
\* exactly once.
C5_NoExpiryReportedTwice ==
    nExp # Off =>
        /\ nRep <= nExp
        /\ (obsArm = "once" /\ pc = 0 /\ W.Flag = 0) => nRep = nExp

C5_Witness ==
    obsArm = "auto" /\ pc = 0 /\ W.Flag = 0 /\ nExp = MaxExp /\ nRep = MaxExp

(* --------------------------- run-time clock --------------------------- *)
\* a foreground step that leaves the bank, its observer and the handler's state
KeepBank == UNCHANGED <<s_uiDelayCount, s_ucTimeOutFlag, g_iRunTime, s_count,
                        hwVal, hooks, tmrObs>>

\* int32_t bsp_GetRunTime(void): the read is inside the critical section; the
\* caller keeps the value returned, to pass it to bsp_CheckRunTime
bsp_GetRunTime ==
    /\ pc = 0 /\ pc' = 0
    /\ Commit(ENABLE_INT(DISABLE_INT(Cpu)))
    /\ LastTime' = g_iRunTime
    /\ done' = "bsp_GetRunTime" /\ ret' = g_iRunTime /\ prevRet' = Off
    /\ sampleTicks' = 0 /\ kRead' = Off /\ nTicks' = nTicks
    /\ UNCHANGED <<id, n, now_time, ticks, told, tcnt, maxId, isr, dlyObs, usObs>>
    /\ KeepBank

\* bsp_CheckRunTime without the wrap branch
RunTimeDiffNoWrap(now, last) == IF now >= last THEN now - last ELSE last - now

\* lines 380-387: time_diff of bsp_CheckRunTime
RunTimeDiff(now, last) ==
    IF now >= last THEN now - last ELSE RUNTIME_MAX - last + now

\* int32_t bsp_CheckRunTime(int32_t _LastTime)
bsp_CheckRunTime ==
    \/ /\ pc = 0 /\ pc' = 380
       /\ Commit(ENABLE_INT(DISABLE_INT(Cpu)))
       /\ now_time' = g_iRunTime
       /\ NoReturn
       /\ kRead' = sampleTicks
       /\ UNCHANGED <<nTicks, sampleTicks>>
       /\ UNCHANGED <<id, n, LastTime, ticks, told, tcnt, maxId, isr, dlyObs, usObs>>
       /\ KeepBank
    \/ /\ pc = 380 /\ pc' = 0
       /\ done' = "bsp_CheckRunTime" /\ ret' = RunTimeDiff(now_time, LastTime)
       /\ prevRet' = Off
       /\ UNCHANGED <<s_tTmr, primask, savedMask, clkObs>>
       /\ UNCHANGED <<id, n, now_time, LastTime, ticks, told, tcnt, maxId, isr,
                      dlyObs, usObs>>
       /\ KeepBank

\* the clock under test: the observer counts the handler's runs since boot
InitClk ==
    /\ InitProg /\ InitObs
    /\ maxId = TMR_COUNT - 1
    /\ obsMode = "off"
    /\ watched = 0
    /\ nTicks = 0

NextClk ==
    \/ Tick
    \/ bsp_GetRunTime
    \/ bsp_CheckRunTime

SpecClk == InitClk /\ [][NextClk]_vars

(* --------------------- properties of the clock ------------------------ *)
\* C6 as claimed: the clock that started at 0 reads MAX-1 after MAX ticks.
C6_ReadsMaxMinusOneAfterMaxTicks ==
    nTicks = RUNTIME_MAX => g_iRunTime = RUNTIME_MAX - 1

\* C6 as amended: the clock that started at 0 reads MAX-1 after MAX-1 ticks and
\* 0 after tick MAX; after t ticks it reads t mod MAX, it never leaves
\* [0, MAX), and every handler run moves it to the next value of
\* 0, 1, ..., MAX-1, 0, ..., nothing else moving it.
C6_ClockSequence ==
    /\ [](/\ g_iRunTime \in 0 .. (RUNTIME_MAX - 1)
          /\ nTicks \in 0 .. (2 * RUNTIME_MAX - 1)
                => g_iRunTime = nTicks % RUNTIME_MAX)
    /\ [][IF s_count' # s_count
          THEN g_iRunTime' = (g_iRunTime + 1) % RUNTIME_MAX
          ELSE g_iRunTime' = g_iRunTime]_vars

C6_Witness ==
    nTicks = RUNTIME_MAX /\ g_iRunTime = 0 /\ hooks # << >>

\* C7: bsp_CheckRunTime(last), last being the value bsp_GetRunTime last
\* returned, returns the number k of handler runs between the two reads of
\* the clock, for every k < SENTINEL.
C7_CheckRunTimeExact ==
    (done = "bsp_CheckRunTime" /\ kRead # Off /\ kRead < RUNTIME_MAX)
        => ret = kRead

C7_Witness ==
    /\ done = "bsp_CheckRunTime" /\ kRead = RUNTIME_MAX - 1
    /\ now_time < LastTime /\ ret = kRead

(* ---------------------------- bsp_DelayMS ----------------------------- *)
\* bsp_DelayMS without the promotion of 1
DelayPromoteNone(d) == d

\* else if (n == 1) n = 2;
DelayPromote(d) == IF d = 1 THEN 2 ELSE d

\* the arming of the delay state without the clearing of the flag
DelayArmKeepsFlag(f, m) == <<m, f>>

\* lines 162-163: s_uiDelayCount = n; s_ucTimeOutFlag = 0;
DelayArm(f, m) == <<m, 0>>

\* a step of a delay leaves the bank, the clock and their observers
KeepTimers == UNCHANGED <<s_tTmr, g_iRunTime, s_count, hwVal, hooks, tmrObs, clkObs>>

\* the observer of the delays runs, save where the frame alone is observed
DlyObserved == obsMode # "frame"

\* void bsp_DelayMS(uint32_t n)
bsp_DelayMS ==
    \* the call: n == 0 returns at once, n == 1 is promoted
    \/ \E d \in 0 .. MaxDelay :
          /\ pc = 0
          /\ origN' = (IF DlyObserved THEN d ELSE 0)
          /\ dArmed' = FALSE /\ dPolled' = FALSE
          /\ dTicks' = 0 /\ relTick' = 0
          /\ IF d = 0
             THEN /\ pc' = 0 /\ n' = n
                  /\ done' = "bsp_DelayMS" /\ ret' = 0 /\ prevRet' = Off
             ELSE /\ pc' = 160 /\ n' = DelayPromote(d)
                  /\ NoReturn
          /\ UNCHANGED <<s_uiDelayCount, s_ucTimeOutFlag, primask, savedMask>>
          /\ UNCHANGED <<id, now_time, LastTime, ticks, told, tcnt, maxId, isr, usObs>>
          /\ KeepTimers
    \* lines 160-165: the critical section that arms the delay state
    \/ /\ pc = 160 /\ pc' = 175
       /\ Commit(ENABLE_INT(DISABLE_INT(Cpu)))
       /\ s_uiDelayCount' = DelayArm(s_ucTimeOutFlag, n)[1]
       /\ s_ucTimeOutFlag' = DelayArm(s_ucTimeOutFlag, n)[2]
       /\ dArmed' = DlyObserved
       /\ NoReturn
       /\ UNCHANGED <<g_iRunTime, s_count, hwVal, hooks, tmrObs, clkObs>>
       /\ UNCHANGED <<origN, dPolled, dTicks, relTick>>
       /\ UNCHANGED <<id, n, now_time, LastTime, ticks, told, tcnt, maxId, isr, usObs>>
    \* line 175: the flag is not set, the loop goes round
    \/ /\ pc = 175 /\ s_ucTimeOutFlag # 1
       /\ pc' = 175
       /\ dPolled' = DlyObserved
       /\ NoReturn
       /\ UNCHANGED <<s_uiDelayCount, s_ucTimeOutFlag, primask, savedMask>>
       /\ UNCHANGED <<origN, dArmed, dTicks, relTick>>
       /\ UNCHANGED <<id, n, now_time, LastTime, ticks, told, tcnt, maxId, isr, usObs>>
       /\ KeepTimers
    \* line 175: the flag is set, break and return
    \/ /\ pc = 175 /\ s_ucTimeOutFlag = 1
       /\ pc' = 0
       /\ dPolled' = DlyObserved
       /\ done' = "bsp_DelayMS" /\ ret' = 0 /\ prevRet' = Off
       /\ UNCHANGED <<s_uiDelayCount, s_ucTimeOutFlag, primask, savedMask>>
       /\ UNCHANGED <<origN, dArmed, dTicks, relTick>>
       /\ UNCHANGED <<id, n, now_time, LastTime, ticks, told, tcnt, maxId, isr, usObs>>
       /\ KeepTimers

\* the millisecond delay under test
InitDly ==
    /\ InitProg /\ InitObs
    /\ maxId = TMR_COUNT - 1
    /\ obsMode = "off"
    /\ watched = 0
    /\ nTicks = Off

NextDly ==
    \/ Tick
    \/ bsp_DelayMS

SpecDly == InitDly /\ [][NextDly]_vars

\* the tick interrupt is independent hardware and keeps coming; the foreground
\* keeps executing
SpecDlyFair == SpecDly /\ WF_vars(Tick) /\ WF_vars(bsp_DelayMS)

(* --------------------- properties of bsp_DelayMS ---------------------- *)
\* C8: bsp_DelayMS(0) returns in the step of its call, having polled nothing,
\* waited for no tick and written neither the delay countdown nor the delay
\* flag; bsp_DelayMS(1) waits with the countdown of bsp_DelayMS(2) and, like
\* it, is released by the second handler run after the delay state is armed.
C8_DelayZeroAndOne ==
    /\ [](/\ (done = "bsp_DelayMS" /\ origN = 0)
                => (~dArmed /\ ~dPolled /\ dTicks = 0)
          /\ (pc # 0 /\ origN \in {1, 2}) => n = 2
          /\ (pc = 175 /\ origN \in {1, 2})
                => s_uiDelayCount = 2 - Min(dTicks, 2)
          /\ (done = "bsp_DelayMS" /\ origN \in {1, 2})
                => (relTick = 2 /\ dTicks >= 2))
    /\ [][(pc = 0 /\ done' = "bsp_DelayMS" /\ origN' = 0)
            => UNCHANGED <<s_uiDelayCount, s_ucTimeOutFlag>>]_vars

C8_Witness ==
    done = "bsp_DelayMS" /\ origN = 1 /\ relTick = 2 /\ dTicks = 2

\* the other case of C8: a call with n = 0 has returned, the delay state
\* left as an earlier call had left it
C8_WitnessZero ==
    done = "bsp_DelayMS" /\ origN = 0 /\ s_ucTimeOutFlag = 1

\* C9: for n >= 2, bsp_DelayMS(n) returns only after the handler has run n
\* times since the delay state was armed, the n-th of these runs being the
\* one that sets the flag; and the call returns eventually.
C9_DelayWaitsNTicks ==
    /\ []((done = "bsp_DelayMS" /\ origN >= 2)
             => (relTick = origN /\ dTicks >= origN))
    /\ []((pc = 175 /\ origN >= 2 /\ s_ucTimeOutFlag = 1) => relTick = origN)
    /\ (pc # 0 ~> pc = 0)

C9_Witness ==
    done = "bsp_DelayMS" /\ origN = MaxDelay /\ dTicks = origN

(* ---------------------------- bsp_DelayUS ----------------------------- *)
\* one clock of the hardware down-counter: LOAD, LOAD-1, ..., 1, 0, LOAD, ...
\* Counting down to 0 raises the tick interrupt, taken at once when PRIMASK
\* is clear.  The observer counts the clocks a running bsp_DelayUS has
\* lived through since its first sample.
HwTick ==
    /\ hwVal' = IF hwVal = 0 THEN HwReload ELSE hwVal - 1
    /\ elapsed' = IF pc = 206 THEN Min(elapsed + 1, UintMod) ELSE elapsed
    /\ sinceSample' = IF pc = 206 THEN Min(sinceSample + 1, HwReload + 1)
                      ELSE sinceSample
    /\ IF hwVal = 1 /\ primask = 0
       THEN SysTick_ISR
       ELSE /\ UNCHANGED <<s_tTmr, s_uiDelayCount, s_ucTimeOutFlag, g_iRunTime,
                           s_count, hooks, primask, savedMask>>
            /\ NoReturn
            /\ UNCHANGED <<tmrObs, clkObs, dlyObs>>
    /\ UNCHANGED fgVars

\* the reload branch adding the whole of reload
UsDeltaDropsNow(old, now, reload) ==
    IF now < old THEN old - now ELSE reload + old

\* lines 210-217: what one changed sample adds to tcnt
UsDelta(old, now, reload) ==
    IF now < old THEN old - now ELSE reload - now + old

\* the observer at a sample of the counter: 0 while every sample so far came
\* less than one counter period after the one before, stuck at a whole
\* period once one came later
Sampled == IF sinceSample > HwReload THEN sinceSample ELSE 0

\* a step of bsp_DelayUS touches its locals only
KeepShared == UNCHANGED <<progVars, tmrObs, clkObs, dlyObs>>

\* void bsp_DelayUS(uint32_t n)
bsp_DelayUS ==
    \* lines 198-201: reload, ticks and tcnt
    \/ \E u \in 0 .. MaxUs :
          /\ pc = 0 /\ pc' = 202
          /\ n' = u
          /\ ticks' = (u * TicksPerUs) % UintMod
          /\ tcnt' = 0
          /\ elapsed' = 0 /\ sinceSample' = 0
          /\ NoReturn
          /\ UNCHANGED <<id, now_time, LastTime, told, maxId, isr>>
          /\ KeepShared
    \* line 202: told = SysTick->VAL
    \/ /\ pc = 202 /\ pc' = 206
       /\ told' = hwVal
       /\ elapsed' = 0 /\ sinceSample' = 0
       /\ NoReturn
       /\ UNCHANGED <<id, n, now_time, LastTime, ticks, tcnt, maxId, isr>>
       /\ KeepShared
    \* lines 206-207: the sample equals the last one
    \/ /\ pc = 206 /\ hwVal = told
       /\ pc' = 206
       /\ sinceSample' = Sampled /\ elapsed' = elapsed
       /\ NoReturn
       /\ UNCHANGED <<id, n, now_time, LastTime, ticks, told, tcnt, maxId, isr>>
       /\ KeepShared
    \* lines 206-225: the sample differs: accumulate, then break or go round
    \/ /\ pc = 206 /\ hwVal # told
       /\ LET t == (tcnt + UsDelta(told, hwVal, HwReload)) % UintMod
          IN /\ tcnt' = t
             /\ told' = hwVal
             /\ IF t >= ticks
                THEN /\ pc' = 0
                     /\ done' = "bsp_DelayUS" /\ ret' = 0 /\ prevRet' = Off
                ELSE /\ pc' = 206
                     /\ NoReturn
       /\ sinceSample' = Sampled /\ elapsed' = elapsed
       /\ UNCHANGED <<id, n, now_time, LastTime, ticks, maxId, isr>>
       /\ KeepShared

\* the microsecond delay under test, against the free-running counter
InitUS ==
    /\ InitProg /\ InitObs
    /\ maxId = TMR_COUNT - 1
    /\ obsMode = "off"
    /\ watched = 0
    /\ nTicks = Off

NextUS ==
    \/ HwTick
    \/ bsp_DelayUS

SpecUS == InitUS /\ [][NextUS]_vars

(* --------------------- properties of bsp_DelayUS ---------------------- *)
\* C10: bsp_DelayUS returns only once the hardware-counter clocks elapsed
\* since its first sample, hence since its entry, are at least the target
\* ticks it computed, however often the counter reloaded during the wait and
\* however far apart the samples fell; the clocks it has accumulated never
\* exceed the clocks elapsed.
C10_DelayUSNeverEarly ==
    /\ done = "bsp_DelayUS" => (elapsed >= ticks /\ elapsed >= tcnt)
    /\ (pc = 206 /\ elapsed < UintMod) => tcnt <= elapsed

C10_Witness ==
    /\ done = "bsp_DelayUS" /\ n * TicksPerUs < UintMod
    /\ ticks > HwReload /\ elapsed > tcnt /\ elapsed < UintMod

\* C11: at every sample of the counter, the samples having come less than one
\* counter period apart, tcnt is the number of hardware-counter clocks elapsed
\* since the first sample.
C11_TcntEqualsElapsed ==
    ((pc = 206 \/ done = "bsp_DelayUS") /\ sinceSample = 0 /\ elapsed < UintMod)
        => tcnt = elapsed

(* ------------- the bank's critical sections, statement by statement --- *)
\* the source lines of the three critical sections
BankLines == {249, 251, 252, 253, 254, 256,
              277, 279, 280, 281, 282, 284,
              304, 306, 307, 308, 310}

\* the lines between DISABLE_INT() and the end of ENABLE_INT()
BankInner == BankLines \ {249, 277, 304}

\* the critical sections with the mode written after ENABLE_INT()
BankStmtLateMode(l, c, i, p) ==
    CASE l = 249 -> DISABLE_INT(c)
      [] l = 251 -> SetField(c, i, "Count", p)
      [] l = 252 -> SetField(c, i, "PreLoad", p)
      [] l = 253 -> SetField(c, i, "Flag", 0)
      [] l = 254 -> ENABLE_INT(c)
      [] l = 256 -> SetField(c, i, "Mode", TMR_ONCE_MODE)
      [] l = 277 -> DISABLE_INT(c)
      [] l = 279 -> SetField(c, i, "Count", p)
      [] l = 280 -> SetField(c, i, "PreLoad", p)
      [] l = 281 -> SetField(c, i, "Flag", 0)
      [] l = 282 -> ENABLE_INT(c)
      [] l = 284 -> SetField(c, i, "Mode", TMR_AUTO_MODE)
      [] l = 304 -> DISABLE_INT(c)
      [] l = 306 -> SetField(c, i, "Count", 0)
      [] l = 307 -> SetField(c, i, "Flag", 0)
      [] l = 308 -> ENABLE_INT(c)
      [] l = 310 -> SetField(c, i, "Mode", TMR_ONCE_MODE)

\* the statement at source line l of bsp_StartTimer (249-256),
\* bsp_StartAutoTimer (277-284) and bsp_StopTimer (304-310)
BankStmt(l, c, i, p) ==
    CASE l = 249 -> DISABLE_INT(c)
      [] l = 251 -> SetField(c, i, "Count", p)
      [] l = 252 -> SetField(c, i, "PreLoad", p)
      [] l = 253 -> SetField(c, i, "Flag", 0)
      [] l = 254 -> SetField(c, i, "Mode", TMR_ONCE_MODE)
      [] l = 256 -> ENABLE_INT(c)
      [] l = 277 -> DISABLE_INT(c)
      [] l = 279 -> SetField(c, i, "Count", p)
      [] l = 280 -> SetField(c, i, "PreLoad", p)
      [] l = 281 -> SetField(c, i, "Flag", 0)
      [] l = 282 -> SetField(c, i, "Mode", TMR_AUTO_MODE)
      [] l = 284 -> ENABLE_INT(c)
      [] l = 304 -> DISABLE_INT(c)
      [] l = 306 -> SetField(c, i, "Count", 0)
      [] l = 307 -> SetField(c, i, "Flag", 0)
      [] l = 308 -> SetField(c, i, "Mode", TMR_ONCE_MODE)
      [] l = 310 -> ENABLE_INT(c)

\* the line executed after line l (0: the function returns)
BankNext(l) ==
    CASE l \in {256, 284, 310} -> 0
      [] l \in {249, 277, 304, 254, 282, 308} -> l + 2
      [] OTHER -> l + 1

\* the function line l belongs to, as the observer names it
BankKind(l) ==
    IF l <= 256 THEN "once" ELSE IF l <= 284 THEN "auto" ELSE "stop"

\* a foreground step on the way into or through a critical section of the bank
BankFrame ==
    /\ NoReturn
    /\ UNCHANGED <<now_time, LastTime, ticks, told, tcnt, maxId, isr>>
    /\ KeepIsrState /\ KeepOtherObs

\* bsp_StartTimer, bsp_StartAutoTimer and bsp_StopTimer one statement at a
\* time; n holds _period while the call runs
bsp_BankCall ==
    \* the call and its range check
    \/ \E e \in {249, 277, 304}, i \in 0 .. maxId, p \in 0 .. MaxPeriod :
          /\ pc = 0
          /\ e = 304 => p = 0
          /\ IF i >= TMR_COUNT
             THEN /\ pc' = e - 3 /\ id' = id /\ n' = n
             ELSE /\ pc' = e /\ id' = i /\ n' = p
          /\ UNCHANGED <<s_tTmr, primask, savedMask, tmrObs>>
          /\ BankFrame
    \* one statement of the critical section
    \/ /\ pc \in BankLines
       /\ Commit(BankStmt(pc, Cpu, id, n))
       /\ pc' = BankNext(pc) /\ id' = id /\ n' = n
       /\ IF BankNext(pc) = 0
          THEN Armed(id, BankKind(pc), n, 0)
          ELSE UNCHANGED tmrObs
       /\ BankFrame

\* the bank with its critical sections stepped
InitTorn ==
    /\ InitProg /\ InitObs
    /\ maxId = TMR_COUNT - 1
    /\ obsMode = "schedule"
    /\ watched \in Slots
    /\ nTicks = Off

NextTorn ==
    \/ Tick
    \/ bsp_BankCall

SpecTorn == InitTorn /\ [][NextTorn]_vars

\* C12: the handler can run only while PRIMASK is clear, which it never is
\* between the first and the last field write of a start or stop call; and
\* whenever it is clear the observed slot's fields all come from the last
\* completed start or stop: its mode and preload, a count within the preload,
\* never a new count with an old mode or preload.
C12_NoTornUpdate ==
    /\ pc \in BankInner => primask = 1
    /\ primask = 0 =>
          /\ obsArm = "none" => W = ZeroTmr
          /\ obsArm = "once" =>
                (W.Mode = TMR_ONCE_MODE /\ W.PreLoad = obsP /\ W.Count <= obsP)
          /\ obsArm = "auto" =>
                /\ W.Mode = TMR_AUTO_MODE /\ W.PreLoad = obsP /\ W.Count <= obsP
                /\ obsP > 0 => W.Count >= 1
          /\ obsArm = "stop" =>
                (W.Mode = TMR_ONCE_MODE /\ W.Count = 0 /\ W.Flag = 0)

\* a start is half written over a running auto-reload slot, the handler held off
C12_Witness ==
    /\ pc = 254 /\ id = watched /\ primask = 1
    /\ obsArm = "auto" /\ obsP = 1 /\ W.Mode = TMR_AUTO_MODE
    /\ W.Count = MaxPeriod /\ W.PreLoad = MaxPeriod

(* ---------------------- out-of-range identifiers ---------------------- *)
\* the lines of the three while(1)
HaltLines == {246, 274, 301}

\* the bank called with every _id up to TMR_COUNT; the observer follows the
\* calls of bsp_CheckTimer with the out-of-range _id
InitOob ==
    /\ InitProg /\ InitObs
    /\ maxId = TMR_COUNT
    /\ obsMode = "schedule"
    /\ watched = TMR_COUNT
    /\ nTicks = Off

SpecOob == InitOob /\ [][NextTmr]_vars

\* C13: with _id >= TMR_COUNT, bsp_StartTimer, bsp_StartAutoTimer and
\* bsp_StopTimer reach their while(1) having written no slot field and not
\* touched the interrupt mask, and never leave it; bsp_CheckTimer returns 0
\* in one step that changes no slot and not the mask.
C13_OutOfRangeChangesNothing ==
    /\ [](done = "bsp_CheckTimer" => ret = 0)
    /\ [][(done' = "bsp_CheckTimer" \/ (pc = 0 /\ pc' \in HaltLines))
            => (pc = 0 /\ UNCHANGED <<s_tTmr, primask, savedMask, s_uiDelayCount,
                                      s_ucTimeOutFlag, g_iRunTime>>)]_vars
    /\ [][(pc \in HaltLines) => pc' = pc]_vars

\* a start with an out-of-range _id has halted the foreground; ticks go on
C13_Witness ==
    /\ pc \in HaltLines /\ primask = 0 /\ hooks # << >>
    /\ \E i \in Slots : s_tTmr[i].Count > 0

\* bsp_CheckTimer(TMR_COUNT) has returned 0 while a slot had its flag set
C13_WitnessCheck ==
    /\ done = "bsp_CheckTimer" /\ ret = 0
    /\ \E i \in Slots : s_tTmr[i].Flag = 1

(* ------------------------------ the hooks ----------------------------- *)
\* the handler under test: the observer counts its runs and records what
\* each hook call can read
InitHook ==
    /\ InitProg /\ InitObs
    /\ maxId = TMR_COUNT - 1
    /\ obsMode = "hooks"
    /\ watched = 0
    /\ nTicks = 0

SpecHook == InitHook /\ [][NextTmr]_vars

\* C14: in every handler run each hook call reads the clock, the slots' flags
\* and the delay flag as that run leaves them; bsp_RunPer1ms is called once,
\* first; TPCRemarks once, last; bsp_RunPer10ms between them in the 10th,
\* 20th, ... run and in no other.
C14_HookOrder ==
    [][s_count' # s_count =>
        LET h == hooks'
            names == [k \in 1 .. Len(h) |-> h[k].name]
        IN /\ \A k \in 1 .. Len(h) :
                /\ h[k].clock = g_iRunTime'
                /\ h[k].flags = <<[i \in Slots |-> s_tTmr'[i].Flag],
                                  s_ucTimeOutFlag'>>
           /\ nTicks' < MaxTicks =>
                names = IF nTicks' % DecaTicks = 0
                        THEN <<"bsp_RunPer1ms", "bsp_RunPer10ms", "TPCRemarks">>
                        ELSE <<"bsp_RunPer1ms", "TPCRemarks">>
           /\ (Len(h) = 3) <=> (s_count' = 0)]_vars

\* the 20th run of the handler, in which a slot's flag was set
C14_Witness ==
    /\ nTicks = 2 * DecaTicks /\ Len(hooks) = 3
    /\ hooks[2].name = "bsp_RunPer10ms"
    /\ hooks[2].flags[1][0] = 1 /\ hooks[2].clock = g_iRunTime

(* --------------------- discipline and flag latch ---------------------- *)
\* C15: wherever the foreground is about to read or write a field the handler
\* writes outside a start/stop critical section (the poll of bsp_DelayMS, the
\* read and the clear of Flag in bsp_CheckTimer), the tick interrupt is masked.
C15_SharedAccessMasked ==
    pc \in {175, 329, 331} => primask = 1

\* a handler run in which slot i's Count is decremented to 0
Expiry(i) == s_count' # s_count /\ s_tTmr[i].Count = 1

\* slot i's Flag goes from a to b
FlagGoes(i, a, b) == s_tTmr[i].Flag = a /\ s_tTmr'[i].Flag = b

\* C16 as claimed: Flag goes from 0 to 1 only in an expiry event, every expiry
\* event leaves it 1, and it goes from 1 to 0 only in bsp_CheckTimer's clear.
C16_FlagClearedOnlyByCheck ==
    [][\A i \in Slots :
          /\ FlagGoes(i, 0, 1) => Expiry(i)
          /\ Expiry(i) => s_tTmr'[i].Flag = 1
          /\ FlagGoes(i, 1, 0) => (pc = 331 /\ id = i)]_vars

\* C16 as amended: Flag goes from 0 to 1 only in an expiry event, every expiry
\* event leaves it 1, the handler never clears it, and it goes from 1 to 0
\* only in bsp_CheckTimer's clear or in a start or stop call on that slot.
C16_FlagLatch ==
    [][\A i \in Slots :
          /\ FlagGoes(i, 0, 1) => Expiry(i)
          /\ Expiry(i) => s_tTmr'[i].Flag = 1
          /\ s_count' # s_count => ~FlagGoes(i, 1, 0)
          /\ FlagGoes(i, 1, 0) =>
                \/ pc = 331 /\ id = i
                \/ /\ pc = 0 /\ pc' = 0
                   /\ \/ s_tTmr'[i].Count = s_tTmr'[i].PreLoad
                      \/ s_tTmr'[i].Count = 0 /\ s_tTmr'[i].Mode = TMR_ONCE_MODE]_vars

\* a stop has just cleared the flag of a slot whose expiry nobody had consumed
C16_Witness ==
    /\ obsArm = "stop" /\ stopFlag = 1 /\ W.Flag = 0
    /\ sync = "fresh" /\ obsTicks = 0 /\ pc = 0

(* ------------------- the mask across critical sections ---------------- *)
\* the calls that hold a critical section, made by a foreground that may have
\* masked the tick interrupt itself before calling
InitMask ==
    /\ s_tTmr = [i \in Slots |-> ZeroTmr]
    /\ s_uiDelayCount = 0 /\ s_ucTimeOutFlag = 0
    /\ g_iRunTime = 0
    /\ s_count = 0
    /\ primask \in {0, 1}
    /\ savedMask = 0
    /\ hwVal = HwReload /\ hooks = << >>
    /\ pc = 0 /\ id = 0 /\ n = 0
    /\ now_time = 0 /\ LastTime = 0
    /\ ticks = 0 /\ told = 0 /\ tcnt = 0
    /\ isr = IsrIdle
    /\ InitObs
    /\ maxId = 0
    /\ obsMode = "frame"
    /\ watched = 0
    /\ nTicks = Off

NextMask ==
    \/ Tick
    \/ bsp_StartTimer
    \/ bsp_StartAutoTimer
    \/ bsp_StopTimer
    \/ bsp_GetRunTime
    \/ bsp_CheckRunTime
    \/ bsp_DelayMS

SpecMask == InitMask /\ [][NextMask]_vars

IsrToHook(r) == IsrClock(IsrSlots(IsrDelay(r)))

\* the tick interrupt is taken and the per-tick hook (line 105) calls
\* bsp_DelayMS(d), d >= 1; the foreground stays where it was interrupted
HookCallsDelayMS ==
    \E d \in 1 .. MaxDelay :
       /\ primask = 0
       /\ isr.pc = 0
       /\ LET r == IsrPer1ms(IsrToHook(Isr))
          IN /\ s_uiDelayCount' = r.delay
             /\ s_ucTimeOutFlag' = r.flag
             /\ s_tTmr' = r.tmr
             /\ g_iRunTime' = r.clock
             /\ hooks' = r.hooks
       /\ isr' = [pc |-> 160, n |-> DelayPromote(d)]
       /\ TickObserved
       /\ UNCHANGED <<s_count, primask, savedMask, hwVal, usObs>>
       /\ UNCHANGED <<pc, id, n, now_time, LastTime, ticks, told, tcnt, maxId>>

\* the handler's part of a step inside that bsp_DelayMS
IsrFrame ==
    /\ NoReturn
    /\ UNCHANGED <<s_tTmr, g_iRunTime, hwVal>>
    /\ UNCHANGED <<pc, id, n, now_time, LastTime, ticks, told, tcnt, maxId>>
    /\ UNCHANGED <<tmrObs, clkObs, dlyObs, usObs>>

\* bsp_DelayMS running in the handler
IsrDelayMS ==
    \* lines 160-165: the critical section that arms the delay state
    \/ /\ isr.pc = 160
       /\ primask' = ENABLE_INT(DISABLE_INT(Cpu)).mask
       /\ savedMask' = ENABLE_INT(DISABLE_INT(Cpu)).saved
       /\ s_uiDelayCount' = DelayArm(s_ucTimeOutFlag, isr.n)[1]
       /\ s_ucTimeOutFlag' = DelayArm(s_ucTimeOutFlag, isr.n)[2]
       /\ isr' = [isr EXCEPT !.pc = 175]
       /\ UNCHANGED <<s_count, hooks>>
       /\ IsrFrame
    \* line 175: the poll; on a set flag bsp_DelayMS returns into the hook and
    \* the handler runs lines 107-112
    \/ /\ isr.pc = 175
       /\ IF s_ucTimeOutFlag = 1
          THEN LET r == IsrRemarks(IsrPer10ms([Isr EXCEPT !.hooks = hooks]))
               IN /\ s_count' = r.count
                  /\ hooks' = r.hooks
                  /\ isr' = IsrIdle
          ELSE UNCHANGED <<s_count, hooks, isr>>
       /\ UNCHANGED <<s_uiDelayCount, s_ucTimeOutFlag, primask, savedMask>>
       /\ IsrFrame

\* a foreground that delays, and a handler whose hook may delay; the
\* foreground runs only while no handler does
InitIsr ==
    /\ InitProg /\ InitObs
    /\ maxId = TMR_COUNT - 1
    /\ obsMode = "off"
    /\ watched = 0
    /\ nTicks = Off

NextIsr ==
    \/ Tick
    \/ isr.pc = 0 /\ bsp_DelayMS
    \/ HookCallsDelayMS
    \/ IsrDelayMS

SpecIsr == InitIsr /\ [][NextIsr]_vars

\* C18: the bsp_DelayMS a hook of the handler called never finds the flag it
\* polls set; from the moment of the call the handler never finishes, no
\* other handler run starts and the foreground never moves again.
C18_DelayInHandlerDeadlocks ==
    /\ [](isr.pc = 175 => s_ucTimeOutFlag = 0)
    /\ [][(isr.pc # 0) =>
            /\ isr'.pc # 0
            /\ UNCHANGED <<pc, s_count, g_iRunTime, s_tTmr>>]_vars

\* the hook's delay polls, having interrupted a foreground delay that was
\* itself waiting
C18_Witness ==
    /\ isr.pc = 175 /\ isr.n = MaxDelay
    /\ pc = 175 /\ dArmed /\ s_uiDelayCount = MaxDelay

(* ------------------------- slot independence -------------------------- *)
\* the bank and the millisecond delay used side by side
InitFrame ==
    /\ InitProg /\ InitObs
    /\ maxId = TMR_COUNT - 1
    /\ obsMode = "frame"
    /\ watched = 0
    /\ nTicks = Off

NextFrame ==
    \/ Tick
    \/ bsp_StartTimer
    \/ bsp_StartAutoTimer
    \/ bsp_StopTimer
    \/ bsp_CheckTimer
    \/ bsp_DelayMS

SpecFrame == InitFrame /\ [][NextFrame]_vars

\* the slots a step changes
Touched == {j \in Slots : s_tTmr'[j] # s_tTmr[j]}

\* C19: a foreground step changes at most one slot, the clear of
\* bsp_CheckTimer only the slot it was called for, and a step that changes a
\* slot leaves the clock and the delay state alone; no step of bsp_DelayMS
\* changes a slot, and only its arming changes the delay state; in a handler
\* run two slots that were equal come out equal, a slot's PreLoad and Mode
\* stay, and what becomes of a slot is what becomes of it with the other
\* slots idle.
C19_SlotIndependence ==
    [][IF s_count' = s_count
       THEN /\ Cardinality(Touched) <= 1
            /\ g_iRunTime' = g_iRunTime
            /\ (pc = 331) => Touched \subseteq {id}
            /\ Touched # {} =>
                  /\ pc \in {0, 331}
                  /\ UNCHANGED <<s_uiDelayCount, s_ucTimeOutFlag>>
            /\ (pc \in {160, 175} \/ pc' \in {160, 175}) => Touched = {}
            /\ ~UNCHANGED <<s_uiDelayCount, s_ucTimeOutFlag>> => pc = 160
       ELSE \A j \in Slots :
               /\ \A k \in Slots :
                     s_tTmr[j] = s_tTmr[k] => s_tTmr'[j] = s_tTmr'[k]
               /\ s_tTmr'[j].PreLoad = s_tTmr[j].PreLoad
               /\ s_tTmr'[j].Mode = s_tTmr[j].Mode
               /\ s_tTmr'[j] =
                     IsrSlots([Isr EXCEPT
                                 !.tmr = [k \in Slots |->
                                            IF k = j THEN s_tTmr[j] ELSE ZeroTmr],
                                 !.delay = 0, !.flag = 0, !.clock = 0]).tmr[j]
      ]_vars

\* bsp_CheckTimer(1) is about to clear slot 1's flag while slot 0's flag and
\* the flag of a finished delay are set
C19_Witness ==
    /\ pc = 331 /\ id = 1
    /\ s_tTmr[0].Flag = 1 /\ s_tTmr[1].Flag = 1
    /\ s_ucTimeOutFlag = 1 /\ g_iRunTime > 0

(* --------------------------- the idle slot ---------------------------- *)
\* C20: a handler run leaves a slot whose Count is 0 as it is, whatever its
\* mode; a slot armed with period 0, by either start, keeps Count 0 and Flag 0
\* and every bsp_CheckTimer on it returns 0; a one-shot slot that has expired
\* keeps Count 0 and, its expiry once reported, bsp_CheckTimer returns 0.
C20_ZeroCountInert ==
    /\ []((obsArm \in {"once", "auto"} /\ obsP = 0) =>
             /\ W.Count = 0 /\ W.Flag = 0
             /\ done = "bsp_CheckTimer" => ret = 0)
    /\ []((obsArm = "once" /\ obsP > 0 /\ sync # "lost" /\ obsTicks >= obsP) =>
             /\ W.Count = 0
             /\ (done = "bsp_CheckTimer" /\ sync = "fresh" /\ obsTicks > obsP)
                   => ret = 0)
    /\ [][s_count' # s_count =>
            \A i \in Slots : s_tTmr[i].Count = 0 => s_tTmr'[i] = s_tTmr[i]]_vars

\* an auto-reload slot armed with period 0 and checked after each tick
C20_Witness ==
    /\ done = "bsp_CheckTimer" /\ obsArm = "auto" /\ obsP = 0
    /\ W.Mode = TMR_AUTO_MODE /\ sync = "fresh"
    /\ obsTicks = MaxObs - 1 /\ ret = 0

====
